---- MODULE Spec2Model ----
(***************************************************************************)
(* Model of MCPAgentClientSession (src/src/mcp_agent/mcp/gen_client.py):   *)
(* the receive loop, the inbound-request hook with the sampling            *)
(* interceptor, and the send path with its correlation table              *)
(* (_response_streams).  The send path itself (super().send_request), the  *)
(* Responder's one-shot guard and the transport are inherited or external: *)
(* they are modelled from the prose specification and marked as such.      *)
(***************************************************************************)
EXTENDS Integers, Sequences, FiniteSets, TLC

\* ---------------------------------------------------------------- bounds
MaxReq     == 2   \* send_request calls issued by this session
MaxInbound == 2   \* inbound requests the peer issues
MaxMsgs    == 2   \* messages the peer puts on the wire in one run
MaxWire    == 2   \* messages buffered on the transport's receive side
StreamCap  == 2   \* capacity of the inbound consumer stream
MaxAttempts == 2  \* reply attempts the application makes on one Responder
MaxNotes   == 1   \* send_notification calls issued by this session

\* ------------------------------------------------------- program constants
INTERNAL_ERROR == -32603

Ids        == 0 .. (MaxReq - 1)       \* ids of this session's own requests
WireIds    == Ids                     \* ids a peer may put on a response
InboundIds == 0 .. (MaxInbound - 1)   \* ids of the peer's requests
Seqs       == 0 .. (MaxMsgs - 1)      \* arrival indices of wire messages

None == "None"
NoMsg == [type |-> "none"]

\* ------------------------------------------------------------ data values
Results     == {"pong"}
UpResults   == {"u1", "u2"}            \* results an upstream session returns
Texts       == {"Hello", "Bye"}        \* texts the fallback provider returns
Causes      == {"overloaded"}  \* messages of raised exceptions
Fields      == {"text", "temperature"}
RawParams   == [text : {"a"}, temperature : {None, "hot"}]

\* An exception value: what str(e) and, for a remote error, e.error.code show.
Exc(c, m) == [code |-> c, message |-> m]
Str(e) == e.message
ClosedResourceError == Exc(0, "ClosedResourceError")
AlreadyResponded    == Exc(0, "Request already responded to")

\* message.root.model_dump(by_alias=True, mode="json", exclude_none=True)
ModelDump(p) == [f \in {g \in DOMAIN p : p[g] # None} |-> p[f]]
\* model_validate: absent optional fields come back as None
ModelValidate(d) == [f \in Fields |-> IF f \in DOMAIN d THEN d[f] ELSE None]

\* ------------------------------------------------------------ wire messages
Response(i, r)       == [type |-> "response", id |-> i, result |-> r]
ErrorResponse(i, e)  == [type |-> "error", id |-> i, error |-> e]
Request(k, kd, v, p) == [type |-> "request", id |-> k, kind |-> kd,
                         valid |-> v, params |-> p]
Notification(v)      == [type |-> "notification", valid |-> v]
TransportError       == [type |-> "exception"]

\* a wire message with its arrival index n (its place in wire order)
Stamp(m, n) == m @@ [seq |-> n]

\* items of the inbound consumer stream; each carries the arrival index of
\* the wire message it was made from
UnknownIdError(m) == [type |-> "runtime_error", about |-> m.id,
                      seq |-> m.seq]

CreateMessageResult(t) == [model |-> "claude-3-sonnet-20240229",
                           role |-> "assistant", text |-> t]
ErrorData(c, m) == [code |-> c, message |-> m]

VARIABLES
    wire,              \* _read_stream: decoded messages not yet read
    closed,            \* the transport has closed (both sides together)
    sent,              \* number of messages the peer has put on the wire
    peerNextId,        \* next id the peer gives to one of its requests
    out,               \* _write_stream: the replies written to it (the requests
                       \* written are those with ids below request_id)
    request_id,        \* _request_id: next id of send_request
    response_streams,  \* _response_streams: ids with a waiting slot
    slot,              \* the per-call response stream's content
    callState,         \* position of each send_request call
    read_timeout,      \* the session was built with a read timeout
    loopPc,            \* position of _receive_loop
    cur,               \* message the loop is processing
    outbox,            \* item the loop is sending to the consumer stream
    inbound,           \* _incoming_message_stream (consumer stream)
    inboundClosed,     \* the consumer stream's writer has been closed
    appHeld,           \* Responders the application took from the stream
    consumed,          \* items the application took from the stream, in order
    notifHook,         \* per arrival index: the notification hook's progress
    session,           \* SessionState: Created, Ready or Failed (unusable)
    initResult,        \* how initialize() ended for its caller
    rejected,          \* the last call refused on an unusable session
    notes,             \* notifications written by send_notification
    requests,          \* RequestResponder.request, per inbound request
    responded,         \* RequestResponder._responded, per inbound request
    attempts,          \* reply attempts made on each Responder
    upstream,          \* ctx.upstream_session is not None
    forwarded,         \* request passed to upstream send_request, per id
    outcome            \* outcome of upstream / provider / hook, per id

vars == <<wire, closed, sent, peerNextId, out, request_id, response_streams,
          slot, callState, read_timeout, loopPc, cur, outbox, inbound,
          inboundClosed, appHeld, consumed, notifHook, session, initResult,
          rejected, notes, requests, responded, attempts, upstream,
          forwarded, outcome>>

peerVars  == <<wire, closed, sent, peerNextId>>
callVars  == <<request_id, response_streams, slot, callState>>
respVars  == <<requests, responded, attempts>>
appVars   == <<appHeld, consumed>>
sessVars  == <<session, initResult, rejected, notes>>
sampVars  == <<forwarded, outcome>>
config    == <<upstream, read_timeout>>

NoOutcome == [kind |-> "none"]

Init ==
    /\ wire = <<>>
    /\ closed = FALSE
    /\ sent = 0
    /\ peerNextId = 0
    /\ out = <<>>
    /\ request_id = 0
    /\ response_streams = {}
    /\ slot = [i \in Ids |-> NoMsg]
    /\ callState = [i \in Ids |-> "idle"]
    /\ read_timeout \in BOOLEAN
    /\ loopPc = "reading"
    /\ cur = NoMsg
    /\ outbox = NoMsg
    /\ inbound = <<>>
    /\ inboundClosed = FALSE
    /\ appHeld = {}
    /\ consumed = <<>>
    /\ notifHook = [n \in Seqs |-> "none"]
    /\ session = "Created"
    /\ initResult = "none"
    /\ rejected = "none"
    /\ notes = 0
    /\ requests = [k \in InboundIds |-> NoMsg]
    /\ responded = [k \in InboundIds |-> FALSE]
    /\ attempts = [k \in InboundIds |-> 0]
    /\ upstream \in BOOLEAN
    /\ forwarded = [k \in InboundIds |-> NoMsg]
    /\ outcome = [k \in InboundIds |-> NoOutcome]

\* ------------------------------------------------------------------ peer
RemoteErrors == {Exc(-32000, "boom")}

PeerSend(m) ==
    /\ ~closed
    /\ sent < MaxMsgs
    /\ Len(wire) < MaxWire
    /\ wire' = Append(wire, Stamp(m, sent))
    /\ sent' = sent + 1
    /\ UNCHANGED closed

PeerOther == <<out, callVars, loopPc, cur, outbox, inbound, inboundClosed,
               appVars, respVars, config, notifHook, sessVars, sampVars>>

PeerResponse ==
    /\ \E i \in WireIds, r \in Results : PeerSend(Response(i, r))
    /\ UNCHANGED <<peerNextId, PeerOther>>

PeerErrorResponse ==
    /\ \E i \in WireIds, e \in RemoteErrors : PeerSend(ErrorResponse(i, e))
    /\ UNCHANGED <<peerNextId, PeerOther>>

PeerRequest ==
    /\ peerNextId < MaxInbound
    /\ \/ \E p \in RawParams : PeerSend(Request(peerNextId, "sampling", TRUE, p))
       \/ \E v \in BOOLEAN :
            PeerSend(Request(peerNextId, "other", v,
                             [text |-> "a", temperature |-> None]))
    /\ peerNextId' = peerNextId + 1
    /\ UNCHANGED PeerOther

PeerNotification ==
    /\ \E v \in BOOLEAN : PeerSend(Notification(v))
    /\ UNCHANGED <<peerNextId, PeerOther>>

\* an undecodable frame: the transport yields an Exception in its place
PeerGarbage ==
    /\ PeerSend(TransportError)
    /\ UNCHANGED <<peerNextId, PeerOther>>

\* the transport closes both sides together
PeerClose ==
    /\ ~closed
    /\ closed' = TRUE
    /\ UNCHANGED <<wire, sent, peerNextId, PeerOther>>

\* -------------------------------------------------------------- transport
\* _receive_loop holds _write_stream in its `async with`: leaving the loop,
\* normally or by an exception, closes it.
WriteOpen == ~closed /\ loopPc \notin {"exited", "crashed"}

\* ------------------------------------------------------ initialization
SessionOther == <<peerVars, out, callVars, loopPc, cur, outbox, inbound,
                  inboundClosed, appVars, respVars, config, notifHook,
                  sampVars>>

\* an initialize() that swallows the failure and returns
InitResult_Swallow(ok) == "returned"

\* lines 46-51: return after the handshake, or log the failure and re-raise
InitResult(ok) == IF ok THEN "returned" ELSE "raised"

\* initialize(): the handshake succeeds or fails; a failed handshake leaves
\* the session unusable
Initialize ==
    /\ session = "Created"
    /\ \E ok \in BOOLEAN :
         /\ session' = IF ok THEN "Ready" ELSE "Failed"
         /\ initResult' = InitResult(ok)
    /\ UNCHANGED <<rejected, notes, SessionOther>>

Calls == {"initialize", "send_request", "send_notification"}

\* a call on an unusable session fails at once with the session-closed error
FailFast(op) ==
    /\ session = "Failed"
    /\ op # rejected
    /\ rejected' = op
    /\ UNCHANGED <<session, initResult, notes, SessionOther>>

\* lines 79-85: send_notification writes the notification and returns
SendNotification ==
    /\ session = "Ready"
    /\ WriteOpen
    /\ notes < MaxNotes
    /\ notes' = notes + 1
    /\ UNCHANGED <<session, initResult, rejected, SessionOther>>

\* ------------------------------------------------------------ send path
\* send_request: allocate an id, register the slot, write the request.
SendRequest ==
    /\ session = "Ready"
    /\ request_id < MaxReq
    /\ WriteOpen
    /\ response_streams' = response_streams \cup {request_id}
    /\ callState' = [callState EXCEPT ![request_id] = "waiting"]
    /\ request_id' = request_id + 1
    /\ UNCHANGED <<peerVars, out, slot, loopPc, cur, outbox, inbound,
                   inboundClosed, appVars, respVars, config, notifHook, sessVars, sampVars>>

CallOther == <<peerVars, out, request_id, slot, loopPc, cur,
               outbox, inbound, inboundClosed, appVars, respVars, config, notifHook, sessVars,
               sampVars>>

\* (c) the timeout elapses while the slot is still empty
Timeout(i) ==
    /\ callState[i] = "waiting"
    /\ read_timeout
    /\ slot[i] = NoMsg
    /\ response_streams' = response_streams \ {i}
    /\ callState' = [callState EXCEPT ![i] = "timeout"]
    /\ UNCHANGED CallOther

\* (d) the caller cancels while the slot is still empty
Cancel(i) ==
    /\ callState[i] = "waiting"
    /\ slot[i] = NoMsg
    /\ response_streams' = response_streams \ {i}
    /\ callState' = [callState EXCEPT ![i] = "cancelled"]
    /\ UNCHANGED CallOther

\* (a), (b) the slot was resolved: return the result or raise the remote error
Return(i) ==
    /\ callState[i] = "waiting"
    /\ slot[i] # NoMsg
    /\ callState' = [callState EXCEPT ![i] =
                        IF slot[i].type = "error" THEN "remote_error"
                                                  ELSE "result"]
    /\ UNCHANGED <<response_streams, CallOther>>

\* -------------------------------------------------------------- Responder
OutResult(k, r) == [type |-> "response", id |-> k, result |-> r]
OutError(k, e)  == [type |-> "error", id |-> k, error |-> e]

\* the part of the state a reply touches
RState == [responded |-> responded, attempts |-> attempts, out |-> out]

Commit(st) ==
    /\ responded' = st.responded
    /\ attempts' = st.attempts
    /\ out' = st.out

\* a Responder without the one-shot guard
Respond_NoGuard(st, k, msg) ==
    LET a == [st EXCEPT !.attempts[k] = @ + 1] IN
    IF WriteOpen
    THEN [st |-> [a EXCEPT !.responded[k] = TRUE, !.out = Append(@, msg)],
          raised |-> FALSE, exc |-> AlreadyResponded]
    ELSE [st |-> [a EXCEPT !.responded[k] = TRUE],
          raised |-> TRUE, exc |-> ClosedResourceError]

\* One reply attempt on the Responder of inbound request k.  The first
\* attempt sets the flag and writes; a later one writes nothing.  The write
\* raises when the transport's send side is closed.
Respond(st, k, msg) ==
    LET a == [st EXCEPT !.attempts[k] = @ + 1] IN
    IF st.responded[k]
    THEN [st |-> a, raised |-> FALSE, exc |-> AlreadyResponded]
    ELSE IF WriteOpen
         THEN [st |-> [a EXCEPT !.responded[k] = TRUE,
                                !.out = Append(@, msg)],
               raised |-> FALSE, exc |-> AlreadyResponded]
         ELSE [st |-> [a EXCEPT !.responded[k] = TRUE],
               raised |-> TRUE, exc |-> ClosedResourceError]

\* ----------------------------------------------------------- receive loop
\* what one step of the loop leaves in its own variables; leaving the loop
\* closes _incoming_message_stream_writer (the `async with` of line 122)
LoopUpdate(pc, c, ob, st) ==
    /\ loopPc' = pc
    /\ cur' = c
    /\ outbox' = ob
    /\ Commit(st)
    /\ inboundClosed' = (inboundClosed \/ pc \in {"exited", "crashed"})

\* an exception leaves `async for`: nothing catches it inside the loop
Crash(st) == LoopUpdate("crashed", NoMsg, NoMsg, st)

\* the message the loop holds in this step: the one it reads, or the one
\* whose handling it is suspended in
Current == IF loopPc = "reading" THEN Head(wire) ELSE cur

\* line 147: the Responder as an item of the consumer stream
ResponderItem(k) == [type |-> "responder", id |-> k, seq |-> Current.seq]

\* a loop that hands every Responder over, replied or not
AfterHook_Always(st, k) == LoopUpdate("sending", NoMsg, ResponderItem(k), st)

\* line 146: hand the Responder to the consumer stream unless replied
AfterHook(st, k) ==
    IF ~st.responded[k]
    THEN LoopUpdate("sending", NoMsg, ResponderItem(k), st)
    ELSE LoopUpdate("reading", NoMsg, NoMsg, st)

Reading(t) == loopPc = "reading" /\ wire # <<>> /\ Head(wire).type \in t

\* a loop that drops every pending call's entry on a transport error
LoopException_Clears ==
    /\ Reading({"exception"})
    /\ wire' = Tail(wire)
    /\ response_streams' = {}
    /\ LoopUpdate("sending", NoMsg, Head(wire), RState)
    /\ UNCHANGED <<closed, sent, peerNextId, request_id, slot, callState,
                   inbound, appVars, requests, config, notifHook, sessVars,
                   sampVars>>

\* line 128: a transport error is forwarded to the consumer stream
LoopException ==
    /\ Reading({"exception"})
    /\ wire' = Tail(wire)
    /\ LoopUpdate("sending", NoMsg, Head(wire), RState)
    /\ UNCHANGED <<closed, sent, peerNextId, callVars, inbound, appVars,
                   requests, config, notifHook, sessVars, sampVars>>

\* a forward that loses the optional sampling parameters
ServerRequest_Lossy(req) == [root |-> [req EXCEPT !.params.temperature = None]]

\* line 220: ServerRequest(request) wraps the received request
ServerRequest(req) == [root |-> req]

\* lines 175-178 and 216-219: choose the branch and start its await
StartSampling(m, req) ==
    IF upstream
    THEN /\ forwarded' = [forwarded EXCEPT ![m.id] = ServerRequest(req)]
         /\ LoopUpdate("awaiting_upstream", m, NoMsg, RState)
         /\ UNCHANGED outcome
    ELSE /\ LoopUpdate("awaiting_provider", m, NoMsg, RState)
         /\ UNCHANGED <<forwarded, outcome>>

\* line 63: the inherited hook may answer, leave the request, or raise
GenericHook(k) ==
    \E h \in {"none", "reply", "raise"} :
       /\ outcome' = [outcome EXCEPT ![k] = [kind |-> "hook", how |-> h]]
       /\ UNCHANGED forwarded
       /\ CASE h = "raise" -> Crash(RState)
            [] h = "none"  -> AfterHook(RState, k)
            [] h = "reply" ->
                 LET r == Respond(RState, k, OutResult(k, "handled")) IN
                 IF r.raised THEN Crash(r.st) ELSE AfterHook(r.st, k)

\* a dispatch that never recognises a sampling request
IsCreateMessageRequest_Never(req) == FALSE

\* line 59: isinstance(request, CreateMessageRequest)
IsCreateMessageRequest(req) == req.kind = "sampling"

\* lines 130-147 with _received_request (lines 53-63)
LoopRequest ==
    /\ Reading({"request"})
    /\ wire' = Tail(wire)
    /\ LET m == Head(wire)
           k == m.id
           req == [kind |-> m.kind, params |-> ModelValidate(ModelDump(m.params))]
       IN IF ~m.valid
          THEN /\ Crash(RState)
               /\ UNCHANGED <<requests, sampVars>>
          ELSE /\ requests' = [requests EXCEPT ![k] = req]
               /\ IF IsCreateMessageRequest(req)
                  THEN StartSampling(m, req)
                  ELSE GenericHook(k)
    /\ UNCHANGED <<closed, sent, peerNextId, callVars, inbound, appVars,
                   config, notifHook, sessVars>>

\* lines 148-155: validate the notification and call the hook
LoopNotification ==
    /\ Reading({"notification"})
    /\ wire' = Tail(wire)
    /\ LET m == Head(wire) IN
       IF ~m.valid
       THEN Crash(RState) /\ UNCHANGED notifHook
       ELSE /\ LoopUpdate("notifying", m, NoMsg, RState)
            /\ notifHook' = [notifHook EXCEPT ![m.seq] = "called"]
    /\ UNCHANGED <<closed, sent, peerNextId, callVars, inbound, appVars,
                   requests, config, sessVars, sampVars>>

\* a hook that filters: the notification is not forwarded
AfterNotificationHook_Filter(m) == LoopUpdate("reading", NoMsg, NoMsg, RState)

\* line 156: after the hook, the notification goes to the consumer stream
AfterNotificationHook(m) == LoopUpdate("sending", NoMsg, m, RState)

\* lines 96-105 and 155-156: _received_notification returns or raises
NotificationHookReturns ==
    /\ loopPc = "notifying"
    /\ \E h \in {"returned", "raised"} :
         /\ notifHook' = [notifHook EXCEPT ![cur.seq] = h]
         /\ IF h = "raised" THEN Crash(RState) ELSE AfterNotificationHook(cur)
    /\ UNCHANGED <<peerVars, callVars, inbound, appVars, requests, config,
                   sessVars, sampVars>>

\* routing by arrival order: the oldest pending call gets the response
RouteKey_Arrival(m) ==
    IF response_streams = {} THEN m.id
    ELSE CHOOSE i \in response_streams : \A j \in response_streams : i <= j

\* line 158: the key the response is routed by
RouteKey(m) == m.id

\* a lookup that leaves the entry in the table (get instead of pop)
PopStream_Keep(key) == response_streams

\* line 158: pop removes the entry it returns
PopStream(key) == response_streams \ {key}

\* a lookup that still finds the stream of a call that has given up
Found_Stale(key) == key \in response_streams \/ callState[key] # "idle"

\* lines 158-159: the popped stream is there
Found(key) == key \in response_streams

\* an unknown id dropped without a trace
OnUnknownId_Drop(m) == LoopUpdate("reading", NoMsg, NoMsg, RState)

\* lines 161-167: an unknown id becomes an error on the consumer stream
OnUnknownId(m) == LoopUpdate("sending", NoMsg, UnknownIdError(m), RState)

\* lines 157-167
LoopResponse ==
    /\ Reading({"response", "error"})
    /\ wire' = Tail(wire)
    /\ LET m == Head(wire)
           key == RouteKey(m)
       IN IF Found(key)
          THEN /\ response_streams' = PopStream(key)
               /\ slot' = [slot EXCEPT ![key] = m]
               /\ LoopUpdate("reading", NoMsg, NoMsg, RState)
          ELSE /\ OnUnknownId(m)
               /\ UNCHANGED <<response_streams, slot>>
    /\ UNCHANGED <<closed, sent, peerNextId, request_id, callState,
                   inbound, appVars, requests, config, notifHook, sessVars, sampVars>>

\* a stream that puts the newest item first
Enqueue_Front(q, item) == <<item>> \o q

\* the consumer stream is first in, first out
Enqueue(q, item) == Append(q, item)

\* _incoming_message_stream_writer.send: waits while the stream is full
LoopSend ==
    /\ loopPc = "sending"
    /\ Len(inbound) < StreamCap
    /\ inbound' = Enqueue(inbound, outbox)
    /\ LoopUpdate("reading", NoMsg, NoMsg, RState)
    /\ UNCHANGED <<peerVars, callVars, appVars, requests, config, notifHook, sessVars, sampVars>>

\* line 127: `async for` ends when the receive side is closed and drained
LoopExit ==
    /\ loopPc = "reading"
    /\ wire = <<>>
    /\ closed
    /\ LoopUpdate("exited", NoMsg, NoMsg, RState)
    /\ UNCHANGED <<peerVars, callVars, inbound, appVars, requests, config, notifHook, sessVars,
                   sampVars>>

\* ---------------------------------------------------- sampling interceptor
UpstreamOutcomes ==
    [kind : {"up_result"}, result : UpResults] \cup
    [kind : {"up_error"}, exc : {Exc(-32000, "boom")}]

ProviderOutcomes ==
    [kind : {"text"}, text : Texts] \cup
    [kind : {"failure"}, exc : {Exc(0, c) : c \in Causes}]

\* lines 207-211: the reply built from the provider's text
FallbackSuccessReply(t) == CreateMessageResult(t)

\* a fallback failure reported under another code
FallbackErrorReply_Code(e) == ErrorData(-32000, Str(e))

\* line 215: ErrorData(code=-32603, message=str(e))
FallbackErrorReply(e) == ErrorData(INTERNAL_ERROR, Str(e))

\* line 224: responder.send_result(result)
UpstreamSuccessReply(result) == result

\* line 226: responder.send_error(code=-32603, message=str(e))
UpstreamErrorReply(e) == ErrorData(INTERNAL_ERROR, Str(e))

\* try: reply with ok / except Exception as e: reply with the error built
\* from e; the only exception the reply itself raises is the closed
\* transport's, and errIfRaised is the error built from it.  An exception
\* raised by the reply inside `except` is not caught.
TryReply(k, ok, errIfRaised) ==
    LET r1 == Respond(RState, k, ok) IN
    IF ~r1.raised THEN AfterHook(r1.st, k)
    ELSE LET r2 == Respond(r1.st, k, OutError(k, errIfRaised)) IN
         IF r2.raised THEN Crash(r2.st) ELSE AfterHook(r2.st, k)

ExceptReply(k, err) ==
    LET r == Respond(RState, k, OutError(k, err)) IN
    IF r.raised THEN Crash(r.st) ELSE AfterHook(r.st, k)

\* lines 183-215: the fallback provider's call completes
ProviderReturns ==
    /\ loopPc = "awaiting_provider"
    /\ LET k == cur.id IN
       \E o \in ProviderOutcomes :
          /\ outcome' = [outcome EXCEPT ![k] = o]
          /\ IF o.kind = "text"
             THEN TryReply(k, OutResult(k, FallbackSuccessReply(o.text)),
                           FallbackErrorReply(ClosedResourceError))
             ELSE ExceptReply(k, FallbackErrorReply(o.exc))
    /\ UNCHANGED <<peerVars, callVars, inbound, appVars, requests, config, notifHook, sessVars,
                   forwarded>>

\* lines 217-226: the upstream session's send_request completes
UpstreamReturns ==
    /\ loopPc = "awaiting_upstream"
    /\ LET k == cur.id IN
       \E o \in UpstreamOutcomes :
          /\ outcome' = [outcome EXCEPT ![k] = o]
          /\ IF o.kind = "up_result"
             THEN TryReply(k, OutResult(k, UpstreamSuccessReply(o.result)),
                           UpstreamErrorReply(ClosedResourceError))
             ELSE ExceptReply(k, UpstreamErrorReply(o.exc))
    /\ UNCHANGED <<peerVars, callVars, inbound, appVars, requests, config, notifHook, sessVars,
                   forwarded>>

\* ------------------------------------------------------ application layer
\* what the application does with an item of the consumer stream
Take(item) ==
    /\ appHeld' = IF item.type = "responder" THEN appHeld \cup {item.id}
                                             ELSE appHeld
    /\ consumed' = Append(consumed, item)

\* the application takes the next buffered item from the consumer stream
AppReceive ==
    /\ inbound # <<>>
    /\ inbound' = Tail(inbound)
    /\ Take(Head(inbound))
    /\ UNCHANGED <<peerVars, out, callVars, loopPc, cur, outbox,
                   inboundClosed, respVars, config, notifHook, sessVars, sampVars>>

\* nothing is buffered: the application takes the item straight from the
\* loop's waiting send, which thereby completes
AppHandOver ==
    /\ inbound = <<>>
    /\ loopPc = "sending"
    /\ Take(outbox)
    /\ LoopUpdate("reading", NoMsg, NoMsg, RState)
    /\ UNCHANGED <<peerVars, callVars, inbound, requests, config, notifHook, sessVars, sampVars>>

\* the application replies through a Responder it holds, possibly again
AppReply(k) ==
    /\ k \in appHeld
    /\ attempts[k] < MaxAttempts
    /\ Commit(Respond(RState, k, OutResult(k, "app")).st)
    /\ UNCHANGED <<peerVars, callVars, loopPc, cur, outbox, inbound,
                   inboundClosed, appVars, requests, config, notifHook, sessVars, sampVars>>

\* ---------------------------------------------------------- specification
Next ==
    \/ PeerResponse
    \/ PeerErrorResponse
    \/ PeerRequest
    \/ PeerNotification
    \/ PeerGarbage
    \/ PeerClose
    \/ Initialize
    \/ \E op \in Calls : FailFast(op)
    \/ SendNotification
    \/ SendRequest
    \/ \E i \in Ids : Timeout(i)
    \/ \E i \in Ids : Cancel(i)
    \/ \E i \in Ids : Return(i)
    \/ LoopException
    \/ LoopRequest
    \/ LoopNotification
    \/ NotificationHookReturns
    \/ LoopResponse
    \/ LoopSend
    \/ LoopExit
    \/ ProviderReturns
    \/ UpstreamReturns
    \/ AppReceive
    \/ AppHandOver
    \/ \E k \in InboundIds : AppReply(k)

Spec == Init /\ [][Next]_vars

TypeOK ==
    /\ loopPc \in {"reading", "sending", "notifying", "awaiting_upstream",
                   "awaiting_provider", "exited", "crashed"}
    /\ response_streams \subseteq Ids
    /\ request_id \in 0 .. MaxReq
    /\ Len(wire) <= MaxWire
    /\ Len(inbound) <= StreamCap

\* a specification with the scheduling the runtime gives: the loop task and
\* every unblocked caller run, the application reads its stream, the
\* collaborators answer, a configured read timeout fires
LoopFairness ==
    /\ WF_vars(LoopException) /\ WF_vars(LoopRequest)
    /\ WF_vars(LoopNotification) /\ WF_vars(LoopResponse)
    /\ WF_vars(NotificationHookReturns)
    /\ WF_vars(LoopSend) /\ WF_vars(LoopExit)
    /\ WF_vars(ProviderReturns) /\ WF_vars(UpstreamReturns)
    /\ WF_vars(AppReceive) /\ WF_vars(AppHandOver)
    /\ \A i \in Ids : WF_vars(Return(i)) /\ WF_vars(Timeout(i))

Fairness == LoopFairness /\ WF_vars(PeerClose)

FairSpec == Init /\ [][Next]_vars /\ Fairness

\* the same scheduling on a transport that is not bound to close
FairOpenSpec == Init /\ [][Next]_vars /\ LoopFairness

\* ------------------------------------------------------------------ claims
Returned == {"result", "remote_error", "timeout", "cancelled", "closed"}

\* replies written to the transport for inbound request k
Replies(k) == {n \in 1 .. Len(out) : out[n].id = k}

\* the replies among the written messages o that carry id k, in order
RepliesOf(o, k) == SelectSeq(o, LAMBDA m : m.id = k)

\* the loop takes the head of the wire in this step
LoopTakes(t) == Reading(t) /\ wire' = Tail(wire)

\* C1: a call's slot only ever holds the response whose id is the call's own
\* id, whatever order the responses arrive in.
C1_RoutedById ==
    \A i \in Ids : slot[i] # NoMsg => slot[i].id = i

\* two calls are pending and the response to the later one arrived first
C1_Witness ==
    /\ callState[1] \in {"result", "remote_error"}
    /\ slot[1].id = 1
    /\ callState[0] = "waiting"
    /\ 0 \in response_streams

\* C2: every send_request call that is waiting eventually returns with a
\* result or a typed error.
C2_EventuallyReturns ==
    \A i \in Ids : (callState[i] = "waiting") ~> (callState[i] \in Returned)

\* C3: once the loop has exited on transport closure, no call is left
\* waiting and the Correlation Table is empty.
C3_ClosureResolvesAll ==
    loopPc = "exited" =>
        /\ response_streams = {}
        /\ \A i \in Ids : callState[i] # "waiting"

\* C4: a response with an unknown id puts exactly one unknown-id error in
\* front of the consumer stream, touches no slot or table entry, leaves the
\* loop alive, and the loop resumes reading once the error is taken.
C4_UnknownIdSurfaced ==
    [][ /\ (LoopTakes({"response", "error"})
            /\ Head(wire).id \notin response_streams)
           => /\ loopPc' = "sending"
              /\ outbox' = UnknownIdError(Head(wire))
              /\ inbound' = inbound
              /\ slot' = slot
              /\ response_streams' = response_streams
              /\ callState' = callState
        /\ (loopPc = "sending" /\ outbox.type = "runtime_error"
            /\ loopPc' # "sending")
           => /\ loopPc' = "reading"
              /\ inbound' \in {inbound, Append(inbound, outbox)}
      ]_vars

\* the unknown-id error is on the consumer stream and the loop has already
\* processed the notification that followed it
C4_Witness ==
    /\ Len(inbound) = 1
    /\ inbound[1].type = "runtime_error"
    /\ loopPc = "sending"
    /\ outbox.type = "notification"

\* C5: at most one reply per inbound request is ever written; the responded
\* flag never goes back, and a reply attempt on a Responder that has
\* responded writes nothing.
C5_ReplyAtMostOnce ==
    /\ [](\A k \in InboundIds : Cardinality(Replies(k)) <= 1)
    /\ [][\A k \in InboundIds :
            responded[k] => /\ responded'[k]
                            /\ RepliesOf(out', k) = RepliesOf(out, k)]_vars

\* a second reply attempt was made on a Responder and one reply is written
C5_Witness ==
    \E k \in InboundIds : attempts[k] = 2 /\ Cardinality(Replies(k)) = 1

\* C6: with an upstream session, the request forwarded upstream is the
\* received one, field by field, and an upstream result is the result of
\* every reply written for that request.
C6_UpstreamPassThrough ==
    /\ loopPc = "awaiting_upstream" =>
          /\ forwarded[cur.id].root.kind = cur.kind
          /\ forwarded[cur.id].root.params = cur.params
    /\ \A k \in InboundIds : outcome[k].kind = "up_result" =>
          \A n \in Replies(k) :
             out[n].type = "response" /\ out[n].result = outcome[k].result

\* a request with an optional parameter set was forwarded and its upstream
\* result relayed
C6_Witness ==
    \E k \in InboundIds :
       /\ outcome[k].kind = "up_result"
       /\ forwarded[k].root.params.temperature = "hot"
       /\ Replies(k) # {}

\* C7: with an upstream session, an upstream error of code c and message m
\* is relayed with the same code c and the same message m.
C7_UpstreamErrorRelayed ==
    \A k \in InboundIds : outcome[k].kind = "up_error" =>
       \A n \in Replies(k) :
          /\ out[n].type = "error"
          /\ out[n].error.code = outcome[k].exc.code
          /\ out[n].error.message = outcome[k].exc.message

\* C8: without an upstream session, the reply to a sampling request is the
\* provider's text as an assistant completion, or error -32603 with the
\* stringified cause; while the transport is open the reply is written.
C8_FallbackReply ==
    \A k \in InboundIds :
       /\ outcome[k].kind = "text" =>
            /\ \A n \in Replies(k) :
                 /\ out[n].type = "response"
                 /\ out[n].result.role = "assistant"
                 /\ out[n].result.text = outcome[k].text
            /\ ~closed => Replies(k) # {}
       /\ outcome[k].kind = "failure" =>
            /\ \A n \in Replies(k) :
                 /\ out[n].type = "error"
                 /\ out[n].error.code = -32603
                 /\ out[n].error.message = outcome[k].exc.message
            /\ ~closed => Replies(k) # {}

\* one sampling request answered from the provider's text and another from
\* the provider's failure
C8_Witness ==
    /\ ~upstream
    /\ \E k1, k2 \in InboundIds :
         /\ outcome[k1].kind = "text" /\ Replies(k1) # {}
         /\ outcome[k2].kind = "failure" /\ Replies(k2) # {}

\* C9: the loop is left only when the receive side is closed and drained;
\* no inbound message ends it.
C9_OnlyClosureEndsLoop ==
    loopPc \in {"exited", "crashed"} => (closed /\ wire = <<>>)

Awaiting == {"awaiting_upstream", "awaiting_provider"}

\* a response to one of this session's pending calls is next on the wire
ResponseDue ==
    /\ wire # <<>>
    /\ Head(wire).type \in {"response", "error"}
    /\ Head(wire).id \in response_streams

\* C12: the loop is never suspended in the handling of an inbound request
\* while a response to a pending send_request is next on the wire.
C12_LoopKeepsReading ==
    loopPc \in Awaiting => ~ResponseDue

\* sampling request k is on the wire, not yet read
SamplingOnWire(k) ==
    \E n \in 1 .. Len(wire) :
       wire[n].type = "request" /\ wire[n].kind = "sampling" /\ wire[n].id = k

\* C13: every inbound sampling request is eventually answered with a reply
\* on the transport, unless the transport closes first.
C13_SamplingAnswered ==
    \A k \in InboundIds : SamplingOnWire(k) ~> (Replies(k) # {} \/ closed)

\* C14: once the interceptor has handled a sampling request, exactly one
\* reply attempt has been made on its Responder.
C14_OneReplyAttempt ==
    \A k \in InboundIds :
       (requests[k] # NoMsg /\ requests[k].kind = "sampling"
        /\ outcome[k] # NoOutcome) => attempts[k] = 1

GivenUp == {"timeout", "cancelled"}

Handed ==
    consumed \o inbound \o (IF loopPc = "sending" THEN <<outbox>> ELSE <<>>)

HandedResponders(k) ==
    Cardinality({n \in 1 .. Len(Handed) :
                    Handed[n].type = "responder" /\ Handed[n].id = k})

HookLeftUnanswered(k) == outcome[k] = [kind |-> "hook", how |-> "none"]

\* C16: the Responder of an inbound request is handed to the consumer stream
\* exactly once when the hook returned without replying, and never when the
\* hook replied (an intercepted sampling request included) or did not return.
C16_HandedIffUnanswered ==
    \A k \in InboundIds :
       HandedResponders(k) = IF HookLeftUnanswered(k) THEN 1 ELSE 0

\* one request was left unanswered by the hook and handed over, the other
\* was a sampling request answered by the interceptor and not handed over
C16_Witness ==
    \E k, j \in InboundIds :
       /\ HookLeftUnanswered(k)
       /\ HandedResponders(k) = 1
       /\ requests[j] # NoMsg
       /\ requests[j].kind = "sampling"
       /\ Replies(j) # {}
       /\ HandedResponders(j) = 0
       /\ loopPc = "reading"

InterceptorOutcomes == {"up_result", "up_error", "text", "failure"}

\* the interceptor is suspended in the call it made for request k
InInterceptor(k) == loopPc \in Awaiting /\ cur.id = k

\* C17: a sampling request is handled by the interceptor and never by the
\* generic hook; a request of another kind is handled by the generic hook
\* and never leads to a call to the upstream session or the provider.
C17_SamplingIntercepted ==
    \A k \in InboundIds :
       requests[k] # NoMsg =>
          IF requests[k].kind = "sampling"
          THEN /\ outcome[k].kind # "hook"
               /\ InInterceptor(k) \/ outcome[k].kind \in InterceptorOutcomes
               /\ upstream => forwarded[k] # NoMsg
          ELSE /\ outcome[k].kind = "hook"
               /\ forwarded[k] = NoMsg
               /\ ~InInterceptor(k)

\* a sampling request went through the interceptor and a request of another
\* kind went through the generic hook
C17_Witness ==
    \E k, j \in InboundIds :
       /\ requests[k] # NoMsg
       /\ requests[k].kind = "sampling"
       /\ outcome[k].kind \in InterceptorOutcomes
       /\ requests[j] # NoMsg
       /\ requests[j].kind # "sampling"
       /\ outcome[j].kind = "hook"

HandedNotifications(s) ==
    Cardinality({n \in 1 .. Len(Handed) :
                    Handed[n].type = "notification" /\ Handed[n].seq = s})

\* C18: the loop calls the notification hook once for a notification it
\* reads, before anything is forwarded; when the hook returns normally the
\* same notification is forwarded to the consumer stream, once; a
\* notification whose hook has not returned normally is not forwarded.
C18_HookThenForward ==
    /\ [](\A s \in Seqs :
            HandedNotifications(s) = IF notifHook[s] = "returned" THEN 1 ELSE 0)
    /\ [][(LoopTakes({"notification"}) /\ Head(wire).valid)
          => /\ notifHook[Head(wire).seq] = "none"
             /\ notifHook'[Head(wire).seq] = "called"
             /\ loopPc' = "notifying"
             /\ cur' = Head(wire)]_vars
    /\ [][\A s \in Seqs :
            (notifHook[s] # "returned" /\ notifHook'[s] = "returned")
            => /\ notifHook[s] = "called"
               /\ cur.seq = s
               /\ loopPc' = "sending"
               /\ outbox' = cur]_vars

\* two notifications went through the hook and then to the consumer stream
C18_Witness ==
    /\ \A s \in Seqs : notifHook[s] = "returned" /\ HandedNotifications(s) = 1
    /\ loopPc = "reading"

Increasing(q) == \A a, b \in 1 .. Len(q) : a < b => q[a].seq < q[b].seq

\* C19: the loop takes messages from the head of the wire only, so what it
\* has handled arrived before what it has not; the items on the consumer
\* stream are in the arrival order of the wire messages they were made from.
C19_ArrivalOrderKept ==
    /\ [](/\ Increasing(wire)
          /\ Increasing(Handed)
          /\ \A a \in 1 .. Len(Handed), b \in 1 .. Len(wire) :
                Handed[a].seq < wire[b].seq
          /\ cur # NoMsg => \A b \in 1 .. Len(wire) : cur.seq < wire[b].seq)
    /\ [][Len(wire') < Len(wire) => wire' = Tail(wire)]_vars

\* an unanswered request and then a notification arrived, and both wait on
\* the consumer stream in that order
C19_Witness ==
    /\ Len(inbound) = 2
    /\ inbound[1].type = "responder"
    /\ inbound[2].type = "notification"
    /\ inbound[1].seq < inbound[2].seq

\* -------------------------------------- an application that stopped reading
\* n transport errors were forwarded (line 129) before the application
\* stopped reading; they arrived before the messages counted by `sent`
Backlog(n) == [j \in 1 .. n |-> Stamp(TransportError, j - n - 1)]

StalledInit ==
    /\ wire = <<>>
    /\ closed = FALSE
    /\ sent = 0
    /\ peerNextId = 0
    /\ out = <<>>
    /\ request_id = 0
    /\ response_streams = {}
    /\ slot = [i \in Ids |-> NoMsg]
    /\ callState = [i \in Ids |-> "idle"]
    /\ read_timeout \in BOOLEAN
    /\ loopPc = "reading"
    /\ cur = NoMsg
    /\ outbox = NoMsg
    /\ inbound \in {Backlog(n) : n \in 0 .. StreamCap}
    /\ inboundClosed = FALSE
    /\ appHeld = {}
    /\ consumed = <<>>
    /\ notifHook = [n \in Seqs |-> "none"]
    /\ session = "Created"
    /\ initResult = "none"
    /\ rejected = "none"
    /\ notes = 0
    /\ requests = [k \in InboundIds |-> NoMsg]
    /\ responded = [k \in InboundIds |-> FALSE]
    /\ attempts = [k \in InboundIds |-> 0]
    /\ upstream \in BOOLEAN
    /\ forwarded = [k \in InboundIds |-> NoMsg]
    /\ outcome = [k \in InboundIds |-> NoOutcome]

\* every step of the program but the application's
StalledNext ==
    \/ PeerResponse
    \/ PeerErrorResponse
    \/ PeerRequest
    \/ PeerNotification
    \/ PeerGarbage
    \/ PeerClose
    \/ Initialize
    \/ \E op \in Calls : FailFast(op)
    \/ SendNotification
    \/ SendRequest
    \/ \E i \in Ids : Timeout(i)
    \/ \E i \in Ids : Cancel(i)
    \/ \E i \in Ids : Return(i)
    \/ LoopException
    \/ LoopRequest
    \/ LoopNotification
    \/ NotificationHookReturns
    \/ LoopResponse
    \/ LoopSend
    \/ LoopExit
    \/ ProviderReturns
    \/ UpstreamReturns

\* the loop task, the callers and the collaborators are scheduled; the
\* application is not
StalledFairness ==
    /\ WF_vars(LoopException) /\ WF_vars(LoopRequest)
    /\ WF_vars(LoopNotification) /\ WF_vars(LoopResponse)
    /\ WF_vars(NotificationHookReturns)
    /\ WF_vars(LoopSend) /\ WF_vars(LoopExit)
    /\ WF_vars(ProviderReturns) /\ WF_vars(UpstreamReturns)
    /\ \A i \in Ids : WF_vars(Return(i)) /\ WF_vars(Timeout(i))

StalledSpec == StalledInit /\ [][StalledNext]_vars /\ StalledFairness

\* the response to the waiting call i is on the wire
ResponsePending(i) ==
    /\ callState[i] = "waiting"
    /\ i \in response_streams
    /\ \E n \in 1 .. Len(wire) :
          wire[n].type \in {"response", "error"} /\ wire[n].id = i

LoopRunning == loopPc \notin {"exited", "crashed"}

\* C20: with an application that never reads the consumer stream, a running
\* loop still reaches the response to a waiting call and resolves its slot
\* (unless the call gives up or the loop ends first).
C20_DeliveryWithoutReader ==
    \A i \in Ids :
       (ResponsePending(i) /\ LoopRunning)
          ~> (slot[i] # NoMsg \/ callState[i] # "waiting" \/ ~LoopRunning)

\* a step of the receive loop: it takes a message from the wire or moves on
\* in the handling of the one it holds
LoopStep == Len(wire') < Len(wire) \/ loopPc' # loopPc

\* C21: a step of the receive loop changes the correlation table only when
\* it takes a response or error response whose id is in the table, and then
\* removes that one entry and resolves that one slot; every other step of
\* the loop (transport error, request, notification, response with an
\* unknown id, and the rest of their handling) leaves table and slots alone.
C21_LoopTouchesOnlyItsEntry ==
    [][LoopStep =>
         IF LoopTakes({"response", "error"})
            /\ Head(wire).id \in response_streams
         THEN /\ response_streams' = response_streams \ {Head(wire).id}
              /\ \A j \in Ids \ {Head(wire).id} : slot'[j] = slot[j]
         ELSE /\ response_streams' = response_streams
              /\ slot' = slot]_vars

\* the response to call 1 came first and removed only the entry of call 1;
\* then a transport error was handled while call 0 was still in the table
C21_Witness ==
    /\ response_streams = {0}
    /\ callState[0] = "waiting"
    /\ slot[0] = NoMsg
    /\ slot[1] # NoMsg
    /\ slot[1].seq = 0
    /\ loopPc = "sending"
    /\ outbox.type = "exception"
    /\ outbox.seq = 1

====
